---- MODULE Spec2Model ----
(***************************************************************************)
(* A model of OpenAIExecutor (src/openai_executor.py): the request         *)
(* lifecycle of execute and execute_direct over a shared cache and a       *)
(* remote completion service.                                              *)
(*                                                                         *)
(* A Message object is the tuple <<role, content>>; the dict that is sent  *)
(* on the wire is the record [role |-> .., content |-> ..].  Python's None *)
(* is the empty tuple.  Temperatures are in tenths (0.2 is 2).             *)
(***************************************************************************)
EXTENDS Integers, Sequences, FiniteSets, TLC

VARIABLES
    self_model,   \* OpenAIExecutor.model, set by the constructor
    cache,        \* OpenAIExecutor.cache: a set of [key, value] entries
    inv,          \* per caller: the frame of its current (or last) invocation
    ncalls,       \* invocations started so far
    helper        \* the frame of the last call of an EdgarHelpers or
                  \* WebHelpers function

vars == <<self_model, cache, inv, ncalls, helper>>

-----------------------------------------------------------------------------
(* Bounds of the model *)

\* longest caller conversation of the single-invocation specification
MaxLen == 4

\* invocations per behaviour of the sequential and concurrent specifications
MaxCalls == 2

\* the SEC query service answers with at most MaxFilings filings
MaxFilings == 2

-----------------------------------------------------------------------------
(* The message model (objects.py) *)

None == <<>>

Roles == {"system", "user", "assistant"}

Contents == {"a", "b"}

System(content) == <<"system", content>>

User(content) == <<"user", content>>

AssistantMsg(content) == <<"assistant", content>>

role(m) == m[1]

to_dict(m) == [role |-> m[1], content |-> m[2]]

from_dict(d) == <<d.role, d.content>>

\* [Message.to_dict(m) for m in s]
ToDicts(s) == [i \in 1..Len(s) |-> to_dict(s[i])]

\* [Message.from_dict(m) for m in s]
FromDicts(s) == [i \in 1..Len(s) |-> from_dict(s[i])]

\* Assistant(message, error, messages_context, system_context)
Assistant(message, error, messages_context, system_context) ==
    [message |-> message, error |-> error,
     messages_context |-> messages_context, system_context |-> system_context]

NoAssistant == Assistant("", FALSE, <<>>, None)

-----------------------------------------------------------------------------
(* The inputs *)

Callers == {1, 2}

\* model identifiers the tokenizer has an encoding for: the two that
\* max_tokens names and one that takes its default
ModelIds == {"gpt-3.5-turbo-16k-0613", "gpt-3.5-turbo-16k", "gpt-4"}

DefaultModel == "gpt-3.5-turbo-16k-0613"

DefaultSystemContent == "You are a helpful assistant."

Messages == Roles \X Contents

RECURSIVE SeqsUpTo(_, _)
SeqsUpTo(S, n) ==
    IF n = 0 THEN {<<>>}
    ELSE LET shorter == SeqsUpTo(S, n - 1)
         IN  shorter \cup {Append(s, x) : s \in shorter, x \in S}

\* every conversation of at most MaxLen messages
Conversations == SeqsUpTo(Messages, MaxLen)

\* the conversations of the multi-invocation specifications: the empty one,
\* two with the same outgoing list, one that needs the default system
\* message, and one whose prompt is long
SampleConversations ==
    { <<>>,
      <<User("a")>>,
      <<System("b"), User("a")>>,
      <<User("a"), System("b")>>,
      <<System("a"), AssistantMsg("b"), User("a")>> }

Temperatures == {2, 7}

CompletionTokens == {1024, 2048}

FunctionLists == {<<>>, <<"f">>}

\* what the remote service can answer: an exception, or a response dict with
\* its top-level keys and its choices
RemoteFailure == [failed |-> TRUE, error |-> "APIError", keys |-> {}, choices |-> <<>>]

\* another exception of the create call
RemoteTimeout == [RemoteFailure EXCEPT !.error = "Timeout"]

Response(keys, choices) ==
    [failed |-> FALSE, error |-> "", keys |-> keys, choices |-> choices]

NoResponse == Response({}, <<>>)

Replies ==
    { RemoteFailure,
      RemoteTimeout,
      Response({}, <<>>),
      Response({"id", "choices"}, <<>>) }
    \cup { Response({"id", "choices"},
                     <<[message |-> [role |-> "assistant", content |-> c]]>>
                     \o (IF c = d THEN <<>>
                         ELSE <<[message |-> [role |-> "assistant", content |-> d]]>>))
           : c \in Contents, d \in {"a"} }

-----------------------------------------------------------------------------
(* OpenAIExecutor: the pure parts *)

\* the second identifier of the table left out
max_tokens_datedOnly(model) ==
    CASE model = "gpt-3.5-turbo-16k-0613" -> 16385
      [] OTHER -> 4096

max_tokens(model) ==
    CASE model = "gpt-3.5-turbo-16k-0613" -> 16385
      [] model = "gpt-3.5-turbo-16k" -> 16385
      [] OTHER -> 4096

\* the budget without the safety margin
max_prompt_tokens_nomargin(model, completion_token_count) ==
    max_tokens(model) - completion_token_count

max_prompt_tokens(model, completion_token_count) ==
    max_tokens(model) - completion_token_count - 256

\* len(tiktoken...encode(text)): the tokenizer is a library; a content's
\* cost is fixed so that prompts fall on both sides of every budget
TokenCost(content) ==
    CASE content = "a" -> 896
      [] content = "b" -> 13186
      [] OTHER -> 895

RECURSIVE SumCost(_)
SumCost(dicts) ==
    IF dicts = <<>> THEN 0
    ELSE TokenCost(Head(dicts).content) + SumCost(Tail(dicts))

\* calculate_tokens on a list of dicts; the empty list is counted as str([])
calculate_tokens(messages) ==
    IF Len(messages) > 0 THEN SumCost(messages) ELSE 1

\* the nested helper of execute; the predicate is a function on the elements
last(predicate, iterable) ==
    LET keep(x) == predicate[x]
        result == SelectSeq(iterable, keep)
    IN  IF result # <<>> THEN result[Len(result)] ELSE None

IsSystem(m) == role(m) = "system"

\* lambda x: x.role() == 'system', on the elements of a list
IsSystemOn(messages) ==
    [x \in {messages[i] : i \in 1..Len(messages)} |-> IsSystem(x)]

NotSystem(m) == role(m) # "system"

\* the first system message instead of the last
SystemMessageOf_first(messages) ==
    LET result == SelectSeq(messages, IsSystem)
    IN  IF result # <<>> THEN result[1] ELSE System(DefaultSystemContent)

\* lines 124-127
SystemMessageOf(messages) ==
    LET system_message == last(IsSystemOn(messages), messages)
    IN  IF system_message = None THEN System(DefaultSystemContent)
        ELSE system_message

\* no filter: the system messages stay where they are
NonSystemOf_all(messages) == messages

\* [m for m in messages if m.role() != 'system']
NonSystemOf(messages) == SelectSeq(messages, NotSystem)

\* no default system message when the caller gave none
MessagesListOf_noDefault(messages) ==
    IF last(IsSystemOn(messages), messages) = None THEN ToDicts(messages)
    ELSE <<to_dict(SystemMessageOf(messages))>> \o ToDicts(NonSystemOf(messages))

\* lines 133-137
MessagesListOf(messages) ==
    <<to_dict(SystemMessageOf(messages))>> \o ToDicts(NonSystemOf(messages))

\* the two validations of execute_direct
PromptTooLong(message_tokens, model, max_completion_tokens) ==
    message_tokens > max_prompt_tokens(model, max_completion_tokens)

\* the flag read the wrong way round
UnsupportedFormat_chatOnly(functions, chat_format) ==
    chat_format /\ Len(functions) > 0

UnsupportedFormat(functions, chat_format) ==
    ~chat_format /\ Len(functions) > 0

\* the functions are passed on whatever they are
RequestOf_functionsAlways(messages, functions, model, max_completion_tokens, temperature, chat_format) ==
    [endpoint |-> IF chat_format THEN "ChatCompletion" ELSE "Completion",
     fields |-> {"model", "temperature", "max_tokens", "messages"}
                \cup (IF chat_format THEN {"functions"} ELSE {}),
     model |-> model,
     temperature |-> temperature,
     max_tokens |-> max_completion_tokens,
     functions |-> functions,
     messages |-> messages]

\* the keyword arguments of the create call that execute_direct makes
RequestOf(messages, functions, model, max_completion_tokens, temperature, chat_format) ==
    [endpoint |-> IF chat_format THEN "ChatCompletion" ELSE "Completion",
     fields |-> {"model", "temperature", "max_tokens", "messages"}
                \cup (IF chat_format /\ functions # <<>> THEN {"functions"} ELSE {}),
     model |-> model,
     temperature |-> temperature,
     max_tokens |-> max_completion_tokens,
     functions |-> IF chat_format /\ functions # <<>> THEN functions ELSE <<>>,
     messages |-> messages]

-----------------------------------------------------------------------------
(* The cache (persistent_cache.py) *)

\* truthiness of the PersistentCache the constructor stores
cache_truthy == TRUE

has_key(c, key) == \E e \in c : e.key = key

get(c, key) ==
    IF \E e \in c : e.key = key
    THEN (CHOOSE e \in c : e.key = key).value
    ELSE NoAssistant

set(c, key, value) ==
    {e \in c : e.key # key} \cup {[key |-> key, value |-> value]}

\* a key that also depends on the executor's model
CacheKey_withModel(messages) == Append(messages, <<"model", self_model>>)

\* the key that execute gives to the cache: the caller's list, nothing else
CacheKey(messages) == messages

\* the cache is never consulted
CacheHit_never(c, messages) == FALSE

\* a lookup that also answers for a request another caller has in flight
CacheHit_inflight(c, messages) ==
    \/ cache_truthy /\ has_key(c, messages)
    \/ \E q \in DOMAIN inv :
          inv[q].pc = "awaiting" /\ inv[q].op = "execute" /\ inv[q].messages = messages

\* line 120
CacheHit(c, messages) == cache_truthy /\ has_key(c, CacheKey(messages))

-----------------------------------------------------------------------------
(* Frames *)

NoOutcome == [kind |-> "none", exc |-> "", assistant |-> NoAssistant,
              response |-> NoResponse]

Returned(assistant) == [kind |-> "return", exc |-> "", assistant |-> assistant,
                        response |-> NoResponse]

ReturnedResponse(response) == [kind |-> "return", exc |-> "",
                               assistant |-> NoAssistant, response |-> response]

Raised(exc) == [kind |-> "raise", exc |-> exc, assistant |-> NoAssistant,
                response |-> NoResponse]

NoPrev == [op |-> "none", messages |-> <<>>, outcome |-> NoOutcome,
           dispatches |-> 0, missed |-> FALSE,
           temperature |-> 0, max_completion_tokens |-> 0, executor_model |-> ""]

\* what a caller remembers of the invocation it has just finished
PrevOf(f) ==
    IF f.pc = "done"
    THEN [op |-> f.op, messages |-> f.messages, outcome |-> f.outcome,
          dispatches |-> Len(f.sent), missed |-> ~has_key(f.pre_cache, f.messages),
          temperature |-> f.temperature,
          max_completion_tokens |-> f.max_completion_tokens,
          executor_model |-> f.executor_model]
    ELSE NoPrev

IdleFrame ==
    [op |-> "none", pc |-> "idle",
     messages |-> <<>>, temperature |-> 0, max_completion_tokens |-> 0,
     functions |-> <<>>, model |-> DefaultModel, chat_format |-> TRUE,
     system_message |-> None, messages_list |-> <<>>,
     called_with |-> <<>>, executor_model |-> "",
     token_model |-> "", budget |-> 0,
     pre_cache |-> {}, counted |-> <<>>, sent |-> <<>>,
     response |-> NoResponse, wrote |-> FALSE,
     outcome |-> NoOutcome, prev |-> NoPrev]

-----------------------------------------------------------------------------
(* execute_direct, lines 70-106, up to the create call *)

\* the frame after the validations: raised, or waiting for the remote reply
DirectBegin(f, messages, functions, model, max_completion_tokens, temperature, chat_format) ==
    LET message_tokens == calculate_tokens(messages)
        g == [f EXCEPT !.counted = Append(@, message_tokens),
                       !.token_model = self_model,
                       !.budget = max_prompt_tokens(self_model, max_completion_tokens)]
    IN  IF PromptTooLong(message_tokens, self_model, max_completion_tokens)
        THEN [g EXCEPT !.pc = "done", !.outcome = Raised("PromptTooLong")]
        ELSE IF UnsupportedFormat(functions, chat_format)
        THEN [g EXCEPT !.pc = "done", !.outcome = Raised("UnsupportedFormat")]
        ELSE [g EXCEPT !.pc = "awaiting",
                       !.sent = Append(@, RequestOf(messages, functions, model,
                                                    max_completion_tokens,
                                                    temperature, chat_format))]

\* a caller calls execute_direct
ExecuteDirectStart(p, messages, functions, model, max_completion_tokens, temperature, chat_format) ==
    /\ inv[p].pc \in {"idle", "done"}
    /\ LET f == [IdleFrame EXCEPT !.op = "execute_direct",
                                  !.messages_list = messages,
                                  !.functions = functions,
                                  !.model = model,
                                  !.max_completion_tokens = max_completion_tokens,
                                  !.temperature = temperature,
                                  !.chat_format = chat_format,
                                  !.executor_model = self_model,
                                  !.pre_cache = cache,
                                  !.prev = PrevOf(inv[p])]
       IN  inv' = [inv EXCEPT ![p] = DirectBegin(f, messages, functions, model,
                                                 max_completion_tokens,
                                                 temperature, chat_format)]
    /\ ncalls' = ncalls + 1
    /\ UNCHANGED <<self_model, cache, helper>>

\* the create call of a direct invocation returns or raises
ExecuteDirectFinish(p, reply) ==
    /\ inv[p].pc = "awaiting"
    /\ inv[p].op = "execute_direct"
    /\ inv' = [inv EXCEPT ![p].pc = "done",
                          ![p].response = reply,
                          ![p].outcome = IF reply.failed THEN Raised(reply.error)
                                         ELSE ReturnedResponse(reply)]
    /\ UNCHANGED <<self_model, cache, ncalls, helper>>

-----------------------------------------------------------------------------
(* execute, lines 108-165 *)

\* the last message of the conversation is never read: an empty
\* conversation goes on with the default system message alone
ExecuteBegin_noLastMessage(f, c, messages, temperature, max_completion_tokens) ==
    IF CacheHit(c, messages)
    THEN [f EXCEPT !.pc = "done", !.outcome = Returned(get(c, CacheKey(messages)))]
    ELSE LET g == [f EXCEPT !.system_message = SystemMessageOf(messages),
                            !.messages_list = MessagesListOf(messages)]
         IN  DirectBegin(g, g.messages_list, <<>>, DefaultModel,
                         max_completion_tokens, temperature, TRUE)

\* lines 120-144: the lookup, the outgoing list and the call of execute_direct
ExecuteBegin(f, c, messages, temperature, max_completion_tokens) ==
    IF CacheHit(c, messages)
    THEN [f EXCEPT !.pc = "done", !.outcome = Returned(get(c, CacheKey(messages)))]
    ELSE IF Len(messages) = 0
    THEN \* messages[-1] of line 130
         [f EXCEPT !.pc = "done", !.outcome = Raised("IndexError"),
                   !.system_message = SystemMessageOf(messages)]
    ELSE LET g == [f EXCEPT !.system_message = SystemMessageOf(messages),
                            !.messages_list = MessagesListOf(messages)]
         IN  DirectBegin(g, g.messages_list, <<>>, DefaultModel,
                         max_completion_tokens, temperature, TRUE)

\* a caller calls execute
ExecuteStart(p, messages, temperature, max_completion_tokens) ==
    /\ inv[p].pc \in {"idle", "done"}
    /\ LET f == [IdleFrame EXCEPT !.op = "execute",
                                  !.messages = messages,
                                  !.called_with = messages,
                                  !.executor_model = self_model,
                                  !.temperature = temperature,
                                  !.max_completion_tokens = max_completion_tokens,
                                  !.pre_cache = cache,
                                  !.prev = PrevOf(inv[p])]
       IN  inv' = [inv EXCEPT ![p] = ExecuteBegin(f, cache, messages, temperature,
                                                  max_completion_tokens)]
    /\ ncalls' = ncalls + 1
    /\ UNCHANGED <<self_model, cache, helper>>

\* the failure is caught and turned into an error-flagged Assistant
CreateRaised_swallowed(f, reply) ==
    [f EXCEPT !.outcome =
        Returned(Assistant("The model could not execute the query.", TRUE,
                           FromDicts(f.messages_list), f.system_message))]

\* the create call raises inside execute: nothing catches it
CreateRaised(f, reply) == [f EXCEPT !.outcome = Raised(reply.error)]

\* line 147
IsDegraded(chat_response) == Cardinality(chat_response.keys) = 0

\* lines 148-153
DegradedAssistant(messages_list, system_message) ==
    Assistant("The model could not execute the query.", TRUE,
              FromDicts(messages_list), system_message)

\* the message of the last choice instead of the first
SuccessAssistant_lastChoice(messages_list, chat_response) ==
    LET choices == chat_response.choices
        conversation == FromDicts(Append(messages_list, choices[Len(choices)].message))
    IN  Assistant(conversation[Len(conversation)][2], FALSE, conversation, None)

\* lines 155-162
SuccessAssistant(messages_list, chat_response) ==
    LET conversation == FromDicts(Append(messages_list, chat_response.choices[1].message))
    IN  Assistant(conversation[Len(conversation)][2], FALSE, conversation, None)

\* the outgoing list is the caller's list itself: the append reaches both
AppendReply_aliased(f, message) ==
    [f EXCEPT !.messages_list = Append(@, message),
              !.messages = Append(@, from_dict(message))]

\* line 155: the returned message goes to the end of the outgoing list
AppendReply(f, message) == [f EXCEPT !.messages_list = Append(@, message)]

\* the result is never stored
CacheStore_skip(c, messages, assistant) == c

\* the result is stored under the normalised conversation, not the caller's
CacheStore_keyedByOutgoing(c, messages, assistant) ==
    set(c, SubSeq(assistant.messages_context, 1, Len(assistant.messages_context) - 1),
        assistant)

\* line 164
CacheStore(c, messages, assistant) ==
    IF cache_truthy THEN set(c, CacheKey(messages), assistant) ELSE c

\* lines 145-165: the create call returns or raises, and execute goes on
ExecuteFinish(p, reply) ==
    /\ inv[p].pc = "awaiting"
    /\ inv[p].op = "execute"
    /\ LET f == [inv[p] EXCEPT !.pc = "done", !.response = reply]
       IN  IF reply.failed
           THEN /\ inv' = [inv EXCEPT ![p] = CreateRaised(f, reply)]
                /\ cache' = cache
           ELSE IF IsDegraded(reply)
           THEN /\ inv' = [inv EXCEPT ![p] =
                       [f EXCEPT !.outcome =
                           Returned(DegradedAssistant(f.messages_list, f.system_message))]]
                /\ cache' = cache
           ELSE IF Len(reply.choices) = 0
           THEN \* chat_response['choices'][0] of line 155
                /\ inv' = [inv EXCEPT ![p] = [f EXCEPT !.outcome = Raised("IndexError")]]
                /\ cache' = cache
           ELSE LET assistant == SuccessAssistant(f.messages_list, reply)
                    g == AppendReply(f, reply.choices[1].message)
                IN  /\ inv' = [inv EXCEPT ![p] =
                            [g EXCEPT !.wrote = cache_truthy,
                                      !.outcome = Returned(assistant)]]
                    /\ cache' = CacheStore(cache, g.messages, assistant)
    /\ UNCHANGED <<self_model, ncalls, helper>>

-----------------------------------------------------------------------------
(* EdgarHelpers, src/helpers/edgar.py *)

\* FormType, lines 18-22
FormTypeValues == {"10-K", "10-Q", "8-K", "ANY"}

ANY == "ANY"

\* form_type = None, the default of get_form_urls
NoFormType == "None"

\* FormType(value) raises ValueError unless value is a value of the enum
IsFormType(value) == value \in FormTypeValues

\* a document of a filing, with or without the 'description' key
Document(description) == [described |-> TRUE, description |-> description]

Undescribed == [described |-> FALSE, description |-> ""]

\* lines 63-67: '10-Q' in d or '10-K' in d or '8-K' in d, on the sample
\* descriptions
MentionsForm(description) == description \in {"10-Q", "10-K", "8-K", "FORM 10-Q"}

\* filings as the SEC query service holds them: the form type the query
\* filters on, and the documents of the filing
SampleFilings ==
    { [formType |-> "10-Q", documents |-> <<Document("10-Q")>>],
      [formType |-> "10-K", documents |-> <<Document("10-K")>>],
      [formType |-> "8-K",  documents |-> <<Document("8-K"), Document("EX-99.1")>>],
      [formType |-> "10-Q", documents |-> <<Document("FORM 10-Q")>>],
      [formType |-> "10-K", documents |-> <<Document("10-K"), Document("10-K")>>],
      [formType |-> "8-K",  documents |-> <<Undescribed>>] }

\* the filings of a ticker in the date range, newest filedAt first
FilingLists == SeqsUpTo(SampleFilings, MaxFilings)

\* "size": "10" of the query
PageSize == 10

\* lines 41-58: QueryApi.get_filings with the query of get_form_urls. The
\* i-th newest filing has period i and its j-th document the url <<i, j>>.
get_filings(filings, form_type) ==
    LET numbered == [i \in 1..Len(filings) |->
                        [formType |-> filings[i].formType,
                         periodOfReport |-> i,
                         documentFormatFiles |->
                             [j \in 1..Len(filings[i].documents) |->
                                 [described |-> filings[i].documents[j].described,
                                  description |-> filings[i].documents[j].description,
                                  documentUrl |-> <<i, j>>]]]]
        matching == IF form_type # NoFormType /\ form_type # ANY
                    THEN SelectSeq(numbered, LAMBDA f : f.formType = form_type)
                    ELSE numbered
    IN  SubSeq(matching, 1, IF Len(matching) < PageSize THEN Len(matching) ELSE PageSize)

\* lines 62-71, the inner loop: the kept documents of one filing
KeptDocuments(filing) ==
    LET kept == SelectSeq(filing.documentFormatFiles,
                          LAMBDA d : d.described /\ MentionsForm(d.description))
    IN  [j \in 1..Len(kept) |->
            <<filing.periodOfReport, kept[j].description, kept[j].documentUrl>>]

RECURSIVE FlattenFilings(_)
\* lines 60-72, the outer loop
FlattenFilings(result) ==
    IF result = <<>> THEN <<>>
    ELSE KeptDocuments(Head(result)) \o FlattenFilings(Tail(result))

\* lines 28-72
get_form_urls(filings, form_type) == FlattenFilings(get_filings(filings, form_type))

\* the text of a form: which extraction made it, from which url
ExtractedText(extractor, url) == [extractor |-> extractor, url |-> url]

\* ''
EmptyText == ExtractedText("none", <<>>)

\* lines 103-139
get_form_text(url, form_type) ==
    CASE form_type = "10-Q" -> ExtractedText("sections_10q", url)
      [] form_type = "10-K" -> ExtractedText("sections_10k", url)
      [] form_type = "8-K" -> ExtractedText("exhibits", url)
      [] OTHER -> EmptyText

-----------------------------------------------------------------------------
(* WebHelpers.get_url, src/helpers/websearch.py lines 189-223 *)

Schemes == {"", "file", "http", "https", "ftp"}

Paths == {"/report.pdf", "/page.html", "/page"}

\* '.pdf' in result.path
HasPdf(path) == path = "/report.pdf"

\* '.htm' in result.path or '.html' in result.path
HasHtm(path) == path = "/page.html"

\* what a source gives when it is asked: content, nothing, or an exception
SourceOutcomes == {"text", "empty", "raise"}

\* the text that a source returned
Fetched(source, outcome) == IF outcome = "text" THEN <<source, "content">> ELSE <<>>

\* convert_html_to_markdown_soup(html), PdfHelpers.parse_pdf(url)
Converted(converter, input) == [converter |-> converter, input |-> input]

NoText == Converted("none", <<>>)

\* how a call of get_url ends: the sources it asked, in order, and the
\* value it returned or the exception it raised
UrlReturned(asked, text) == [asked |-> asked, kind |-> "return", exc |-> "", text |-> text]

UrlRaised(asked, exc) == [asked |-> asked, kind |-> "raise", exc |-> exc, text |-> NoText]

\* one source, asked last: its converted text, or its exception
FromSource(asked, source, converter, outcome) ==
    IF outcome = "raise"
    THEN UrlRaised(Append(asked, source), source)
    ELSE UrlReturned(Append(asked, source), Converted(converter, Fetched(source, outcome)))

\* empty text of the direct fetch is converted and returned as it is
DirectThenBrowser_noFallback(first, browser) ==
    FromSource(<<>>, "requests", "markdown_soup", first)

\* lines 216-220: requests.get, and the browser when its text is empty
DirectThenBrowser(first, browser) ==
    IF first = "text" \/ first = "raise"
    THEN FromSource(<<>>, "requests", "markdown_soup", first)
    ELSE FromSource(<<"requests">>, "firefox", "markdown_soup", browser)

\* lines 189-223
get_url(scheme, path, force_firefox, first, browser) ==
    IF scheme = "" \/ scheme = "file"
    THEN IF HasPdf(path) THEN FromSource(<<>>, "parse_pdf", "parse_pdf", first)
         ELSE IF HasHtm(path) THEN FromSource(<<>>, "open", "markdown_soup", first)
         ELSE UrlReturned(<<>>, NoText)
    ELSE IF (scheme = "http" \/ scheme = "https") /\ HasPdf(path)
    THEN FromSource(<<>>, "parse_pdf", "parse_pdf", first)
    ELSE IF scheme = "http" \/ scheme = "https"
    THEN IF force_firefox
         THEN FromSource(<<>>, "firefox", "markdown_soup", browser)
         ELSE DirectThenBrowser(first, browser)
    ELSE UrlReturned(<<>>, NoText)

-----------------------------------------------------------------------------
(* The helper calls *)

IdleHelper ==
    [op |-> "none", filings |-> <<>>, form_type |-> NoFormType,
     urls |-> <<>>, chosen |-> 0, kind |-> "none", exc |-> "", text |-> EmptyText,
     scheme |-> "", path |-> "", force_firefox |-> FALSE,
     first |-> "", browser |-> "", fetch |-> UrlReturned(<<>>, NoText)]

\* lines 142-159
GetLatestFormText(filings, form_type) ==
    /\ LET urls == get_form_urls(filings, form_type)
           f == [IdleHelper EXCEPT !.op = "get_latest_form_text",
                                   !.filings = filings,
                                   !.form_type = form_type,
                                   !.urls = urls,
                                   !.kind = "return"]
       IN  helper' = IF urls = <<>>
                     THEN f
                     ELSE [f EXCEPT !.chosen = 1,
                                    !.text = get_form_text(urls[1][3], form_type)]
    /\ UNCHANGED <<self_model, cache, inv, ncalls>>

\* lines 162-168
GetLatestFiling(filings) ==
    /\ LET urls == get_form_urls(filings, NoFormType)
           f == [IdleHelper EXCEPT !.op = "get_latest_filing",
                                   !.filings = filings,
                                   !.urls = urls]
       IN  helper' =
             IF urls = <<>>
             THEN [f EXCEPT !.kind = "raise", !.exc = "IndexError"]
             ELSE IF ~IsFormType(urls[Len(urls)][2])
             THEN [f EXCEPT !.chosen = Len(urls), !.kind = "raise", !.exc = "ValueError"]
             ELSE [f EXCEPT !.chosen = Len(urls), !.kind = "return",
                            !.text = get_form_text(urls[Len(urls)][3],
                                                   urls[Len(urls)][2])]
    /\ UNCHANGED <<self_model, cache, inv, ncalls>>

\* a call of WebHelpers.get_url
GetUrl(scheme, path, force_firefox, first, browser) ==
    /\ LET fetch == get_url(scheme, path, force_firefox, first, browser)
       IN  helper' = [IdleHelper EXCEPT !.op = "get_url",
                                        !.scheme = scheme,
                                        !.path = path,
                                        !.force_firefox = force_firefox,
                                        !.first = first,
                                        !.browser = browser,
                                        !.fetch = fetch,
                                        !.kind = fetch.kind,
                                        !.exc = fetch.exc]
    /\ UNCHANGED <<self_model, cache, inv, ncalls>>

-----------------------------------------------------------------------------
(* Specifications *)

\* a fresh executor over an empty cache
Init ==
    /\ self_model \in ModelIds
    /\ cache = {}
    /\ inv = [p \in Callers |-> IdleFrame]
    /\ ncalls = 0
    /\ helper = IdleHelper

\* another OpenAIExecutor is constructed with its own model; the cache is
\* the default argument of the constructor, the same object for all of them
Construct(p, model) ==
    /\ model # self_model
    /\ self_model' = model
    /\ UNCHANGED <<cache, inv, ncalls, helper>>

\* a caller may start an invocation when it is in none
CanCall(p, limit) == ncalls < limit /\ inv[p].pc \in {"idle", "done"}

\* one caller, one invocation after the other
Next ==
    \/ /\ CanCall(1, MaxCalls)
       /\ \E m \in SampleConversations, t \in Temperatures, c \in CompletionTokens :
             ExecuteStart(1, m, t, c)
    \/ /\ inv[1].pc = "awaiting"
       /\ \E r \in Replies : ExecuteFinish(1, r)
    \/ /\ CanCall(1, MaxCalls)
       /\ \E m \in SampleConversations, fs \in FunctionLists,
             c \in CompletionTokens, cf \in BOOLEAN :
             ExecuteDirectStart(1, ToDicts(m), fs, DefaultModel, c, 2, cf)
    \/ /\ inv[1].pc = "awaiting"
       /\ \E r \in Replies : ExecuteDirectFinish(1, r)

Spec == Init /\ [][Next]_vars

\* one invocation, with every conversation of at most MaxLen messages
NextOne ==
    \/ /\ CanCall(1, 1)
       /\ \E m \in Conversations, t \in Temperatures, c \in CompletionTokens :
             ExecuteStart(1, m, t, c)
    \/ /\ inv[1].pc = "awaiting"
       /\ \E r \in Replies : ExecuteFinish(1, r)
    \/ /\ CanCall(1, 1)
       /\ \E m \in Conversations, fs \in FunctionLists, mo \in ModelIds,
             c \in CompletionTokens, cf \in BOOLEAN :
             ExecuteDirectStart(1, ToDicts(m), fs, mo, c, 2, cf)
    \/ /\ inv[1].pc = "awaiting"
       /\ \E r \in Replies : ExecuteDirectFinish(1, r)

SpecOne == Init /\ [][NextOne]_vars

\* two callers of the same executor, not coordinated
NextConcurrent ==
    \/ \E p \in Callers :
          /\ CanCall(p, MaxCalls)
          /\ \E m \in SampleConversations, t \in Temperatures, c \in CompletionTokens :
                ExecuteStart(p, m, t, c)
    \/ \E p \in Callers :
          /\ inv[p].pc = "awaiting"
          /\ \E r \in Replies : ExecuteFinish(p, r)

SpecConcurrent == Init /\ [][NextConcurrent]_vars

\* the conversations of the specification of several executors
SharedConversations == {<<User("a")>>, <<User("a"), System("b")>>}

\* one caller, executors of several models over the one cache
NextShared ==
    \/ /\ CanCall(1, MaxCalls)
       /\ \E m \in SharedConversations, t \in Temperatures, c \in CompletionTokens :
             ExecuteStart(1, m, t, c)
    \/ /\ inv[1].pc = "awaiting"
       /\ \E r \in Replies : ExecuteFinish(1, r)
    \/ /\ CanCall(1, MaxCalls)
       /\ inv[1].pc = "done"
       /\ \E m \in ModelIds : Construct(1, m)

SpecShared == Init /\ [][NextShared]_vars

\* the helper functions, called with any filings the query service may hold
\* and any url
NextHelpers ==
    \/ \E filings \in FilingLists, form_type \in FormTypeValues :
          GetLatestFormText(filings, form_type)
    \/ \E filings \in FilingLists : GetLatestFiling(filings)
    \/ \E scheme \in Schemes, path \in Paths, force_firefox \in BOOLEAN,
          first \in SourceOutcomes, browser \in SourceOutcomes :
          GetUrl(scheme, path, force_firefox, first, browser)

SpecHelpers == Init /\ [][NextHelpers]_vars

-----------------------------------------------------------------------------
(* Properties *)

\* the invocation is of execute and has been started
InExecute(f) == f.op = "execute" /\ f.pc # "idle"

\* the key was in the cache when the invocation started
KeyWasPresent(f) == \E e \in f.pre_cache : e.key = f.messages

\* the invocation and the one before it are both of execute, with the same
\* conversation
SecondOfTwo(f) ==
    /\ f.op = "execute"
    /\ f.pc = "done"
    /\ f.prev.op = "execute"
    /\ f.prev.messages = f.messages

\* one dispatch in the two invocations, and the second returns what the
\* first returned
OneDispatchSameValue(f) ==
    /\ f.prev.dispatches + Len(f.sent) = 1
    /\ f.prev.outcome.kind = "return"
    /\ f.outcome.kind = "return"
    /\ f.outcome.assistant = f.prev.outcome.assistant

\* C1, as stated: two invocations of execute in sequence with identical
\* conversations make exactly one dispatch to the remote service, and the
\* second returns a value equal to the value the first returned.
C1_TwiceOneDispatch ==
    \A p \in Callers : SecondOfTwo(inv[p]) => OneDispatchSameValue(inv[p])

\* the first of the two missed the cache and returned a non-error Assistant
FirstSucceeded(f) ==
    /\ f.prev.missed
    /\ f.prev.outcome.kind = "return"
    /\ ~f.prev.outcome.assistant.error

\* C1, amended: two invocations of execute in sequence with identical
\* conversations, the first of which misses the cache and returns a
\* non-error Assistant, make exactly one dispatch to the remote service, and
\* the second returns a value equal to the value the first returned.
C1_TwiceOneDispatchAfterSuccess ==
    \A p \in Callers :
        (SecondOfTwo(inv[p]) /\ FirstSucceeded(inv[p])) => OneDispatchSameValue(inv[p])

\* the second of two identical invocations has returned after a successful
\* first one
C1_Witness ==
    \E p \in Callers :
        /\ SecondOfTwo(inv[p])
        /\ FirstSucceeded(inv[p])
        /\ inv[p].prev.dispatches = 1
        /\ inv[p].outcome.kind = "return"

\* C2: an invocation of execute whose conversation is a key of the cache
\* returns the stored Assistant and, while it runs, counts no tokens,
\* dispatches nothing and writes nothing to the cache.
C2_HitReturnsStored ==
    \A p \in Callers :
        LET f == inv[p]
        IN  (InExecute(f) /\ KeyWasPresent(f)) =>
                /\ f.pc = "done"
                /\ f.outcome.kind = "return"
                /\ \E e \in f.pre_cache :
                      e.key = f.messages /\ f.outcome.assistant = e.value
                /\ f.counted = <<>>
                /\ f.sent = <<>>
                /\ ~f.wrote
                /\ cache = f.pre_cache

\* an invocation has returned from a cache that held its conversation
C2_Witness ==
    \E p \in Callers :
        /\ InExecute(inv[p])
        /\ KeyWasPresent(inv[p])
        /\ inv[p].pc = "done"

\* the remote service answered the dispatch of an invocation of execute with
\* a response of zero choices
ZeroChoices(f) ==
    /\ f.op = "execute"
    /\ f.pc = "done"
    /\ Len(f.sent) = 1
    /\ ~f.response.failed
    /\ Len(f.response.choices) = 0

\* C3: a remote reply with zero choices makes execute return an Assistant
\* with error set, the fixed diagnostic content and the outgoing message
\* list as its context, and the cache is left as it was.
C3_ZeroChoicesDegraded ==
    \A p \in Callers :
        LET f == inv[p]
        IN  ZeroChoices(f) =>
                /\ f.outcome.kind = "return"
                /\ f.outcome.assistant.error
                /\ f.outcome.assistant.message = "The model could not execute the query."
                /\ f.outcome.assistant.messages_context = FromDicts(f.sent[1].messages)
                /\ cache = f.pre_cache

\* the invocation reached the validations of execute_direct
Validated(f) == f.op # "none" /\ f.pc # "idle" /\ f.counted # <<>>

\* the message list that execute_direct was given
Outgoing(f) == IF f.sent # <<>> THEN f.sent[1].messages ELSE f.messages_list

\* the sum the budget is compared with
Needed(f) == calculate_tokens(Outgoing(f)) + f.max_completion_tokens + 256

\* C4: a request whose measured tokens, requested completion tokens and the
\* margin of 256 together exceed max_tokens of the executor's model is not
\* dispatched and fails with PromptTooLong; a request within that budget is
\* not rejected as too long.
C4_PromptBudget ==
    \A p \in Callers :
        LET f == inv[p]
        IN  Validated(f) =>
                IF Needed(f) > max_tokens(self_model)
                THEN /\ f.sent = <<>>
                     /\ f.pc = "done"
                     /\ f.outcome.kind = "raise"
                     /\ f.outcome.exc = "PromptTooLong"
                ELSE f.outcome.exc # "PromptTooLong"

\* a request was rejected that only the margin makes too long
C4_Witness ==
    \E p \in Callers :
        /\ Validated(inv[p])
        /\ inv[p].outcome.exc = "PromptTooLong"
        /\ Needed(inv[p]) - 256 <= max_tokens(self_model)

\* the invocation of execute dispatched a request
Dispatched(f) == f.op = "execute" /\ Len(f.sent) = 1

\* the positions of the system entries of a list of messages or of dicts
SystemPositions(s) == {i \in 1..Len(s) : s[i][1] = "system"}

SystemDictPositions(s) == {i \in 1..Len(s) : s[i].role = "system"}

\* C5: when the caller's conversation holds a system message at any
\* position and the invocation dispatches, the transmitted list holds
\* exactly one system message, at position 0.
C5_OneSystemFirst ==
    \A p \in Callers :
        LET f == inv[p]
        IN  (Dispatched(f) /\ SystemPositions(f.messages) # {}) =>
                SystemDictPositions(f.sent[1].messages) = {1}

\* a conversation with system messages at two positions, neither the first,
\* was dispatched
C5_Witness ==
    \E p \in Callers :
        /\ Dispatched(inv[p])
        /\ Cardinality(SystemPositions(inv[p].messages)) = 2
        /\ 1 \notin SystemPositions(inv[p].messages)

\* C6: for a conversation without a system message, the transmitted list is
\* the default system message followed by the caller's messages in their
\* order.
C6_DefaultSystemPrepended ==
    \A p \in Callers :
        LET f == inv[p]
            sent == f.sent[1].messages
        IN  (Dispatched(f) /\ SystemPositions(f.messages) = {}) =>
                /\ Len(sent) = Len(f.messages) + 1
                /\ sent[1] = [role |-> "system",
                              content |-> "You are a helpful assistant."]
                /\ \A i \in 1..Len(f.messages) :
                      /\ sent[i + 1].role = f.messages[i][1]
                      /\ sent[i + 1].content = f.messages[i][2]

\* a conversation of two different messages, none of them a system message,
\* was dispatched
C6_Witness ==
    \E p \in Callers :
        /\ Dispatched(inv[p])
        /\ SystemPositions(inv[p].messages) = {}
        /\ Len(inv[p].messages) >= 2
        /\ inv[p].messages[1] # inv[p].messages[2]

\* the i-th of the positions of S, counted from 1
RECURSIVE NthOf(_, _)
NthOf(S, i) ==
    LET least == CHOOSE x \in S : \A y \in S : x <= y
    IN  IF i = 1 THEN least ELSE NthOf(S \ {least}, i - 1)

\* C7: when the caller's conversation holds several system messages, the
\* outgoing list is the last of them followed by the non-system messages in
\* their order, and nothing else.
C7_LastSystemKept ==
    \A p \in Callers :
        LET f == inv[p]
            sent == f.sent[1].messages
            sys == SystemPositions(f.messages)
            rest == (1..Len(f.messages)) \ sys
        IN  (Dispatched(f) /\ Cardinality(sys) >= 2) =>
                /\ Len(sent) = 1 + Cardinality(rest)
                /\ \E i \in sys :
                      /\ \A j \in sys : j <= i
                      /\ sent[1].role = "system"
                      /\ sent[1].content = f.messages[i][2]
                /\ \A k \in 1..Cardinality(rest) :
                      /\ sent[k + 1].role = f.messages[NthOf(rest, k)][1]
                      /\ sent[k + 1].content = f.messages[NthOf(rest, k)][2]

\* a conversation of two system messages of different content and two
\* different non-system messages was dispatched
C7_Witness ==
    \E p \in Callers :
        LET f == inv[p]
            sys == SystemPositions(f.messages)
        IN  /\ Dispatched(f)
            /\ Len(f.messages) = 4
            /\ Cardinality(sys) = 2
            /\ \E i \in sys, j \in sys : f.messages[i] # f.messages[j]
            /\ \E i, j \in (1..4) \ sys : f.messages[i] # f.messages[j]

\* the invocation of execute went the whole success path: a miss, a
\* dispatch, and a non-error Assistant returned
Succeeded(f) ==
    /\ f.op = "execute"
    /\ f.pc = "done"
    /\ Len(f.sent) = 1
    /\ f.outcome.kind = "return"
    /\ ~f.outcome.assistant.error

\* the invocation of execute ended in another way than the success path
EndedOtherwise(f) == f.op = "execute" /\ f.pc = "done" /\ ~Succeeded(f)

\* C8: the cache holds only results of the success path: every entry holds
\* a non-error Assistant; an invocation of execute that ends in any other
\* way (PromptTooLong, a failure of the remote call, a degraded result)
\* leaves the cache as it found it; and a successful one adds one entry, the
\* Assistant it returns under the caller's own conversation.
C8_CacheOnlySuccess ==
    /\ \A e \in cache : ~e.value.error
    /\ \A p \in Callers :
          LET f == inv[p]
          IN  /\ EndedOtherwise(f) => cache = f.pre_cache
              /\ Succeeded(f) =>
                    /\ [key |-> f.messages, value |-> f.outcome.assistant] \in cache
                    /\ \A e \in cache :
                          e.key = f.messages \/ e \in f.pre_cache
                    /\ \A e \in f.pre_cache :
                          e.key = f.messages \/ e \in cache

\* a successful invocation whose conversation is not its own outgoing list
\* has stored its result, and the cache already held another entry
C8_Witness ==
    \E p \in Callers :
        /\ Succeeded(inv[p])
        /\ inv[p].pre_cache # {}
        /\ inv[p].sent[1].messages # ToDicts(inv[p].messages)
        /\ [key |-> inv[p].messages, value |-> inv[p].outcome.assistant] \in cache

\* the invocation missed the cache with a conversation that passes the
\* checks before the dispatch
MissedAndValid(f) ==
    /\ InExecute(f)
    /\ ~KeyWasPresent(f)
    /\ f.messages # <<>>
    /\ calculate_tokens(MessagesListOf(f.messages)) + f.max_completion_tokens + 256
          <= max_tokens(self_model)

\* C9: invocations of execute are not mutually excluded: an invocation that
\* misses the cache and passes the validations makes a dispatch of its own,
\* whatever the other callers have in flight, so that two concurrent
\* invocations with an identical conversation can both dispatch.
C9_EveryMissDispatches ==
    \A p \in Callers : MissedAndValid(inv[p]) => Len(inv[p].sent) = 1

\* two callers are waiting for the remote service with an identical
\* conversation: both missed the cache and both dispatched
C9_Witness ==
    \E p \in Callers, q \in Callers :
        /\ p # q
        /\ inv[p].op = "execute" /\ inv[q].op = "execute"
        /\ inv[p].pc = "awaiting" /\ inv[q].pc = "awaiting"
        /\ inv[p].messages = inv[q].messages
        /\ ~KeyWasPresent(inv[p]) /\ ~KeyWasPresent(inv[q])
        /\ Len(inv[p].sent) = 1 /\ Len(inv[q].sent) = 1

\* execute_direct was called with the non-chat shape and a non-empty
\* function list
NonChatWithFunctions(f) ==
    /\ f.op = "execute_direct"
    /\ f.pc # "idle"
    /\ ~f.chat_format
    /\ f.functions # <<>>

\* C10, as stated: execute_direct called with the non-chat shape and a
\* non-empty function list dispatches nothing and fails with
\* UnsupportedFormat.
C10_NonChatFunctionsUnsupported ==
    \A p \in Callers :
        LET f == inv[p]
        IN  NonChatWithFunctions(f) =>
                /\ f.sent = <<>>
                /\ f.pc = "done"
                /\ f.outcome.kind = "raise"
                /\ f.outcome.exc = "UnsupportedFormat"

\* C10, amended: execute_direct called with the non-chat shape and a
\* non-empty function list dispatches nothing and fails: with PromptTooLong
\* when the prompt exceeds the budget, with UnsupportedFormat otherwise.
C10_NonChatFunctionsRejected ==
    \A p \in Callers :
        LET f == inv[p]
        IN  NonChatWithFunctions(f) =>
                /\ f.sent = <<>>
                /\ f.pc = "done"
                /\ f.outcome.kind = "raise"
                /\ f.outcome.exc = IF Needed(f) > max_tokens(self_model)
                                   THEN "PromptTooLong"
                                   ELSE "UnsupportedFormat"

\* a non-chat call with functions and a prompt within the budget has failed
\* with UnsupportedFormat
C10_Witness ==
    \E p \in Callers :
        /\ NonChatWithFunctions(inv[p])
        /\ Needed(inv[p]) <= max_tokens(self_model)
        /\ inv[p].outcome.exc = "UnsupportedFormat"

\* C11: a request that execute_direct dispatches carries a non-empty
\* functions list or no functions field at all: the field is there exactly
\* when the caller's list is non-empty, and then it is that list.
C11_NoEmptyFunctions ==
    \A p \in Callers :
        LET f == inv[p]
        IN  \A i \in 1..Len(f.sent) :
                /\ "functions" \in f.sent[i].fields <=> f.functions # <<>>
                /\ "functions" \in f.sent[i].fields =>
                      /\ f.sent[i].functions = f.functions
                      /\ f.sent[i].functions # <<>>

\* a chat request was dispatched for a call with an empty function list, and
\* has no functions field
C11_Witness ==
    \E p \in Callers :
        /\ inv[p].op = "execute_direct"
        /\ inv[p].chat_format
        /\ inv[p].functions = <<>>
        /\ Len(inv[p].sent) = 1
        /\ "functions" \notin inv[p].sent[1].fields

\* the invocation of execute follows one of execute with the same
\* conversation
LaterSameConversation(f) ==
    /\ InExecute(f)
    /\ f.prev.op = "execute"
    /\ f.prev.messages = f.messages

\* what distinguishes the invocation from the one before it, the
\* conversation apart
ParametersChanged(f) ==
    { n \in {"temperature", "max_completion_tokens", "model"} :
        CASE n = "temperature" -> f.temperature # f.prev.temperature
          [] n = "max_completion_tokens" ->
                 f.max_completion_tokens # f.prev.max_completion_tokens
          [] OTHER -> f.executor_model # f.prev.executor_model }

\* C12: the cache key depends on the conversation alone: after a successful
\* execute, a later execute with the same conversation and another
\* temperature, max_completion_tokens or executor model counts no tokens,
\* dispatches nothing and returns the Assistant of the earlier one.
C12_KeyIgnoresParameters ==
    \A p \in Callers :
        LET f == inv[p]
        IN  (LaterSameConversation(f) /\ FirstSucceeded(f)
                /\ ParametersChanged(f) # {}) =>
                /\ f.pc = "done"
                /\ f.counted = <<>>
                /\ f.sent = <<>>
                /\ f.outcome.kind = "return"
                /\ f.outcome.assistant = f.prev.outcome.assistant

\* an invocation was served from the cache with a temperature, a completion
\* budget and an executor model that all differ from those of the
\* invocation that stored the result
C12_Witness ==
    \E p \in Callers :
        /\ LaterSameConversation(inv[p])
        /\ FirstSucceeded(inv[p])
        /\ ParametersChanged(inv[p]) = {"temperature", "max_completion_tokens", "model"}
        /\ inv[p].outcome.kind = "return"
        /\ inv[p].sent = <<>>

\* C13: execute leaves the caller's list as it was given, whatever the
\* invocation ends with: the reply of the remote service is appended to the
\* outgoing list alone, and an invocation that ends without a returned
\* message leaves the outgoing list as it was sent.
C13_CallerListUntouched ==
    \A p \in Callers :
        LET f == inv[p]
        IN  InExecute(f) =>
                /\ f.messages = f.called_with
                /\ Succeeded(f) =>
                      f.messages_list =
                          Append(f.sent[1].messages, f.response.choices[1].message)
                /\ (EndedOtherwise(f) /\ f.sent # <<>>) =>
                      f.messages_list = f.sent[1].messages

\* a successful invocation whose outgoing list differs from the caller's
\* (the system message was moved to the front) and then received the reply
C13_Witness ==
    \E p \in Callers :
        /\ Succeeded(inv[p])
        /\ inv[p].called_with = <<User("a"), System("b")>>
        /\ inv[p].messages = <<User("a"), System("b")>>
        /\ Len(inv[p].messages_list) = 3

\* the create call returned a response with at least one choice
RepliedWithChoice(f) ==
    /\ f.op = "execute"
    /\ f.pc = "done"
    /\ Len(f.sent) = 1
    /\ ~f.response.failed
    /\ Len(f.response.choices) >= 1

\* C14: on a reply with a choice, execute returns an Assistant with
\* error = false, whose message is the content of choices[0].message and
\* whose context is the outgoing list, converted, followed by that message.
C14_SuccessAssistantShape ==
    \A p \in Callers :
        LET f == inv[p]
            returned == f.response.choices[1].message
        IN  RepliedWithChoice(f) =>
                /\ f.outcome.kind = "return"
                /\ f.outcome.assistant.error = FALSE
                /\ f.outcome.assistant.message = returned.content
                /\ f.outcome.assistant.messages_context =
                       FromDicts(f.sent[1].messages) \o <<from_dict(returned)>>

\* a reply of two choices with different contents was turned into an
\* Assistant
C14_Witness ==
    \E p \in Callers :
        /\ RepliedWithChoice(inv[p])
        /\ Len(inv[p].response.choices) = 2
        /\ inv[p].response.choices[1].message.content
               # inv[p].response.choices[2].message.content
        /\ inv[p].outcome.assistant.message = "b"

\* the create call of the invocation of execute raised
DispatchFailed(f) ==
    /\ f.op = "execute"
    /\ f.pc = "done"
    /\ Len(f.sent) = 1
    /\ f.response.failed

\* C15: an invocation of execute dispatches at most once, and not at all on
\* a cache hit or when a validation fails; when the dispatch fails, the
\* invocation ends by raising that same error, with one dispatch made and
\* the cache as it was.
C15_OneDispatchFailurePropagates ==
    \A p \in Callers :
        LET f == inv[p]
        IN  InExecute(f) =>
                /\ Len(f.sent) <= 1
                /\ KeyWasPresent(f) => f.sent = <<>>
                /\ (f.counted # <<>> /\ f.counted[1] > f.budget) => f.sent = <<>>
                /\ (f.pc = "done" /\ f.outcome.kind = "raise"
                       /\ f.outcome.exc \in {"PromptTooLong", "UnsupportedFormat"}) =>
                      f.sent = <<>>
                /\ DispatchFailed(f) =>
                      /\ f.outcome = Raised(f.response.error)
                      /\ f.outcome.exc \in {"APIError", "Timeout"}
                      /\ ~f.wrote

\* an invocation ended with the timeout that its one dispatch raised
C15_Witness ==
    \E p \in Callers :
        /\ DispatchFailed(inv[p])
        /\ inv[p].response.error = "Timeout"
        /\ inv[p].outcome = Raised("Timeout")

\* C16: the prompt budget is max_tokens() - reserved - 256, max_tokens()
\* being 16385 for 'gpt-3.5-turbo-16k-0613' and 'gpt-3.5-turbo-16k' and 4096
\* for every other identifier, for every reserved count.
C16_PromptBudgetTable ==
    \A p \in Callers :
        LET f == inv[p]
            window == IF f.token_model \in {"gpt-3.5-turbo-16k-0613", "gpt-3.5-turbo-16k"}
                      THEN 16385 ELSE 4096
        IN  Validated(f) =>
                /\ f.token_model \in ModelIds
                /\ f.budget = window - f.max_completion_tokens - 256

\* the budget of the undated 16k identifier was computed with 1024 reserved
C16_Witness ==
    \E p \in Callers :
        /\ Validated(inv[p])
        /\ inv[p].token_model = "gpt-3.5-turbo-16k"
        /\ inv[p].max_completion_tokens = 1024
        /\ inv[p].budget = 15105

\* C19: the model identifier that a dispatching execute sends is the
\* executor's configured model, the one whose budget validated the prompt.
C19_DispatchedModelIsBudgetModel ==
    \A p \in Callers :
        LET f == inv[p]
        IN  Dispatched(f) =>
                /\ f.token_model = f.executor_model
                /\ f.sent[1].model = f.token_model

\* get_latest_form_text was called with ANY and found filings
AnyFormFound(h) ==
    /\ h.op = "get_latest_form_text"
    /\ h.form_type = ANY
    /\ h.urls # <<>>

\* C17: get_latest_form_text with form_type = ANY and a non-empty discovery
\* list returns the extracted text of the newest entry of the list, not the
\* empty string.
C17_AnyReturnsLatestText ==
    AnyFormFound(helper) =>
        /\ helper.kind = "return"
        /\ helper.text # EmptyText
        /\ helper.text.url = helper.urls[1][3]

\* get_url was called with an http or https url that is not a PDF
HttpPage(h) ==
    /\ h.op = "get_url"
    /\ h.scheme \in {"http", "https"}
    /\ ~HasPdf(h.path)

\* the call ended with what the browser gave, converted, or its exception
EndedWithBrowser(h) ==
    h.fetch = FromSource(SubSeq(h.fetch.asked, 1, Len(h.fetch.asked) - 1),
                         "firefox", "markdown_soup", h.browser)

\* C18: on an http/https non-PDF url, when the direct fetch gives empty
\* text or fails, the browser fetch is tried and its converted text is the
\* result; with force_firefox the direct fetch is not made.
C18_FallbackOnEmptyOrFailure ==
    HttpPage(helper) =>
        /\ helper.force_firefox => helper.fetch.asked = <<"firefox">>
        /\ (~helper.force_firefox /\ helper.first \in {"empty", "raise"}) =>
              /\ helper.fetch.asked = <<"requests", "firefox">>
              /\ EndedWithBrowser(helper)

\* C18, amended: on an http/https non-PDF url, when the direct fetch gives
\* empty text, the browser fetch is tried and its converted text is the
\* result; when the direct fetch raises, the exception ends the call and
\* the browser is not tried; non-empty text is converted and returned
\* without the browser; with force_firefox only the browser is asked.
C18_FallbackOnEmptyOnly ==
    HttpPage(helper) =>
        /\ helper.force_firefox =>
              /\ helper.fetch.asked = <<"firefox">>
              /\ EndedWithBrowser(helper)
        /\ (~helper.force_firefox /\ helper.first = "empty") =>
              /\ helper.fetch.asked = <<"requests", "firefox">>
              /\ EndedWithBrowser(helper)
        /\ (~helper.force_firefox /\ helper.first = "raise") =>
              helper.fetch = UrlRaised(<<"requests">>, "requests")
        /\ (~helper.force_firefox /\ helper.first = "text") =>
              helper.fetch = UrlReturned(<<"requests">>,
                                 Converted("markdown_soup", Fetched("requests", "text")))

\* the direct fetch gave empty text and the browser's page was returned
C18_Witness ==
    /\ HttpPage(helper)
    /\ ~helper.force_firefox
    /\ helper.first = "empty"
    /\ helper.browser = "text"
    /\ helper.fetch.kind = "return"
    /\ helper.fetch.text = Converted("markdown_soup", Fetched("firefox", "text"))

\* one of the two functions chose an entry of a discovery list
ChoseLatest(h) ==
    /\ h.op \in {"get_latest_form_text", "get_latest_filing"}
    /\ h.urls # <<>>

\* C20: get_latest_filing and get_latest_form_text both take the first entry
\* of the newest-first list of get_form_urls, whenever the list is not
\* empty.
C20_BothSelectNewest ==
    ChoseLatest(helper) =>
        /\ helper.chosen = 1
        /\ helper.kind = "return" => helper.text \in {EmptyText} \cup
               {ExtractedText(e, helper.urls[1][3]) :
                   e \in {"sections_10q", "sections_10k", "exhibits"}}

\* execute was called with the empty conversation and the cache held no
\* entry for it
EmptyMiss(f) ==
    /\ InExecute(f)
    /\ f.called_with = <<>>
    /\ ~KeyWasPresent(f)

\* C21: execute with an empty conversation that misses the cache ends with
\* an error (the IndexError of messages[-1]) before any token is counted
\* and before any dispatch, and the cache stays as the invocation found it.
C21_EmptyConversationRaises ==
    \A p \in Callers :
        LET f == inv[p]
        IN  EmptyMiss(f) =>
                /\ f.pc = "done"
                /\ f.outcome = Raised("IndexError")
                /\ f.counted = <<>>
                /\ f.sent = <<>>
                /\ ~f.wrote
                /\ cache = f.pre_cache

\* an empty conversation was refused by an executor whose cache already
\* held the result of an earlier invocation
C21_Witness ==
    \E p \in Callers :
        /\ EmptyMiss(inv[p])
        /\ inv[p].outcome.kind = "raise"
        /\ inv[p].pre_cache # {}
        /\ cache = inv[p].pre_cache

====
